---- MODULE Spec2Model ----
(***************************************************************************)
(* Model of Mental_Health_Dashboard.py: the cleaning pipeline              *)
(* load_and_clean_data and the dashboard script that filters the cleaned   *)
(* table and derives its aggregates.                                       *)
(*                                                                         *)
(* Values.  A text cell is a sequence of one-character strings, so that    *)
(* lower-casing and trimming are computed character by character.  NaN is  *)
(* the missing value of a text column; it is a one-element sequence whose  *)
(* element is no character.  A numeric or datetime cell is <<n>>, and the  *)
(* missing number (NaN / NaT) is <<>>.  A boolean cell is TRUE or FALSE.   *)
(* The pandas semantics modelled are those of object-dtype text columns.   *)
(***************************************************************************)
EXTENDS Integers, Sequences, FiniteSets, TLC

\* Largest number of data rows of survey.csv the model explores.
MaxRows == 3

\* ------------------------------------------------------------------------
\* Cells
\* ------------------------------------------------------------------------

\* np.nan in a text (object) column.
NaN == <<"NaN">>

\* np.nan in a numeric column, NaT in a datetime column.
NumNaN == <<>>

Num(n) == <<n>>

Val(c) == c[1]

Whitespace == {" ", "\t"}

Digits == {"0","1","2","3","4","5","6","7","8","9"}

DigitVal(c) ==
  CASE c = "0" -> 0 [] c = "1" -> 1 [] c = "2" -> 2 [] c = "3" -> 3
    [] c = "4" -> 4 [] c = "5" -> 5 [] c = "6" -> 6 [] c = "7" -> 7
    [] c = "8" -> 8 [] c = "9" -> 9

\* str.lower(), one character.
LowerChar(c) ==
  CASE c = "A" -> "a" [] c = "B" -> "b" [] c = "C" -> "c" [] c = "D" -> "d"
    [] c = "E" -> "e" [] c = "F" -> "f" [] c = "G" -> "g" [] c = "H" -> "h"
    [] c = "I" -> "i" [] c = "J" -> "j" [] c = "K" -> "k" [] c = "L" -> "l"
    [] c = "M" -> "m" [] c = "N" -> "n" [] c = "O" -> "o" [] c = "P" -> "p"
    [] c = "Q" -> "q" [] c = "R" -> "r" [] c = "S" -> "s" [] c = "T" -> "t"
    [] c = "U" -> "u" [] c = "V" -> "v" [] c = "W" -> "w" [] c = "X" -> "x"
    [] c = "Y" -> "y" [] c = "Z" -> "z" [] OTHER -> c

\* Series.str.lower(): NaN stays NaN.
Lower(s) == IF s = NaN THEN NaN ELSE [i \in 1..Len(s) |-> LowerChar(s[i])]

RECURSIVE LStrip(_)
LStrip(s) ==
  IF s # <<>> /\ Head(s) \in Whitespace THEN LStrip(Tail(s)) ELSE s

RECURSIVE RStrip(_)
RStrip(s) ==
  IF s # <<>> /\ s[Len(s)] \in Whitespace
    THEN RStrip(SubSeq(s, 1, Len(s) - 1))
    ELSE s

\* Series.str.strip(): leading and trailing whitespace removed; NaN stays NaN.
Strip(s) == IF s = NaN THEN NaN ELSE RStrip(LStrip(s))

\* Series.astype(str): the missing value becomes the text "nan".
AsTypeStr(s) == IF s = NaN THEN <<"n","a","n">> ELSE s

\* bool(x) of an object cell: NaN is a non-zero float, a text is true unless empty.
PyBool(v) == IF v = NaN THEN TRUE ELSE Len(v) > 0

RECURSIVE DigitsValue(_)
DigitsValue(s) ==
  IF s = <<>> THEN 0
  ELSE 10 * DigitsValue(SubSeq(s, 1, Len(s) - 1)) + DigitVal(s[Len(s)])

IsDigits(s) == s # <<>> /\ \A i \in 1..Len(s) : s[i] \in Digits

\* pd.to_numeric(errors="coerce") on the cells the model draws: an optionally
\* signed run of digits is its value, any other text and a missing cell are NaN.
ToNumeric(s) ==
  IF s = NaN THEN NumNaN
  ELSE IF IsDigits(s) THEN Num(DigitsValue(s))
  ELSE IF s # <<>> /\ Head(s) = "-" /\ IsDigits(Tail(s))
    THEN Num(0 - DigitsValue(Tail(s)))
  ELSE NumNaN

\* pd.to_datetime(errors="coerce"): a run of digits is a date, anything else NaT.
ToDatetime(s) ==
  IF s = NaN THEN NumNaN
  ELSE IF IsDigits(s) THEN Num(DigitsValue(s))
  ELSE NumNaN

\* ------------------------------------------------------------------------
\* Literals of load_and_clean_data
\* ------------------------------------------------------------------------

female_terms ==
  { <<"f","e","m","a","l","e"," ","(","c","i","s",")">>,  \* 'female (cis)'
    <<"f","e","m","a","l","e"," ","(","c","i","s",")","\t">>,  \* 'female (cis)\t'
    <<"f","e","m">>,  \* 'fem'
    <<"f">>,  \* 'f'
    <<"f","e","m","a","l">>,  \* 'femal'
    <<"w","o","m","a","n">>,  \* 'woman'
    <<"f","e","m","a","i","l">>,  \* 'femail'
    <<"c","i","s"," ","f","e","m","a","l","e">>,  \* 'cis female'
    <<"f","e","m","a","k","e">>,  \* 'femake'
    <<"q","u","e","e","r","/","s","h","e","/","t","h","e","y">>,  \* 'queer/she/they'
    <<"c","i","s","-","f","e","m","a","l","e","/","f","e","m","m","e">> }  \* 'cis-female/femme'

male_terms ==
  { <<"m","s","l","e">>,  \* 'msle'
    <<"g","u","y"," ","(","-","i","s","h",")"," ","^","_","^">>,  \* 'guy (-ish) ^_^'
    <<"m","a","n">>,  \* 'man'
    <<"m","a","l">>,  \* 'mal'
    <<"m","a","k","e">>,  \* 'make'
    <<"m","a","l","e"," ","(","c","i","s",")">>,  \* 'male (cis)'
    <<"m","a","l","e">>,  \* 'male'
    <<"m">>,  \* 'm'
    <<"m","a","l","e",",","m">>,  \* 'male,m'
    <<"m","a","l","e","-","i","s","h">>,  \* 'male-ish'
    <<"m","a","l","r">>,  \* 'malr'
    <<"m","a","i","l","e">>,  \* 'maile'
    <<"m","a","i","l">>,  \* 'mail'
    <<"c","i","s"," ","m","a","l","e">>,  \* 'cis male'
    <<"s","o","m","e","t","h","i","n","g"," ","k","i","n","d","a"," ","m","a","l","e","?">> }  \* 'something kinda male?'

other_terms ==
  { <<"m","a","l","e"," ","l","e","a","n","i","n","g"," ","a","n","d","r","o","g","y","n","o","u","s">>,  \* 'male leaning androgynous'
    <<"m","a","l","e"," ","l","e","a","n","i","n","g"," ","a","n","d","r","o","g","y","o","u","s">>,  \* 'male leaning androgyous'
    <<"n","e","u","t","e","r">>,  \* 'neuter'
    <<"t","r","a","n","s","-","f","e","m","a","l","e">>,  \* 'trans-female'
    <<"u","n","s","u","r","e"," ","w","h","a","t"," ","t","h","a","t"," ","r","e","a","l","l","y"," ","m","e","a","n","s">>,  \* 'unsure what that really means'
    <<"t","r","a","n","s"," ","w","o","m","a","n">>,  \* 'trans woman'
    <<"p">>,  \* 'p'
    <<"g","e","n","d","e","r","q","u","e","e","r">>,  \* 'genderqueer'
    <<"a"," ","l","i","t","t","l","e"," ","a","b","o","u","t"," ","y","o","u">>,  \* 'a little about you'
    <<"n","o","n","-","b","i","n","a","r","y">>,  \* 'non-binary'
    <<"n","a","h">>,  \* 'nah'
    <<"a","l","l">>,  \* 'all'
    <<"e","n","b","y">>,  \* 'enby'
    <<"f","e","m","a","l","e"," ","(","t","r","a","n","s",")">>,  \* 'female (trans)'
    <<"q","u","e","e","r">>,  \* 'queer'
    <<"f","l","u","i","d">>,  \* 'fluid'
    <<"a","n","d","r","o","g","y","n","e">>,  \* 'androgyne'
    <<"a","g","e","n","d","e","r">>,  \* 'agender'
    <<"o","s","t","e","n","s","i","b","l","y"," ","m","a","l","e",","," ","u","n","s","u","r","e"," ","w","h","a","t"," ","t","h","a","t"," ","r","e","a","l","l","y"," ","m","e","a","n","s">> }  \* 'ostensibly male, unsure what that really means'

\* The tokens df.replace turns into NaN in every column.
missing_values ==
  { <<>>,  \* ''
    <<"N","/","A">>,  \* 'N/A'
    <<"n","/","a">>,  \* 'n/a'
    <<"N","a">>,  \* 'Na'
    <<"D","o","n","'","t"," ","k","n","o","w">>,  \* "Don't know"
    <<"M","a","y","b","e">>,  \* 'Maybe'
    <<"S","o","m","e"," ","o","f"," ","t","h","e","m">> }  \* 'Some of them'

female == <<"f","e","m","a","l","e">>

male == <<"m","a","l","e">>

other == <<"o","t","h","e","r">>

Yes == <<"Y","e","s">>

No == <<"N","o">>

\* The two corrupted no_employees tokens, as written in the replace of line 69.
corrupted_tokens ==
  { <<"j","u","n","-","2","5">>,  \* 'jun-25'
    <<"0","1","-","m","a","y">> }  \* '01-may'

\* size_map as a set of <<key, value>> pairs.
size_map ==
  { <<<<"1","-","5">>, 3>>,  \* '1-5'
    <<<<"6","-","2","5">>, 15>>,  \* '6-25'
    <<<<"2","6","-","1","0","0">>, 63>>,  \* '26-100'
    <<<<"1","0","0","-","5","0","0">>, 300>>,  \* '100-500'
    <<<<"5","0","0","-","1","0","0","0">>, 750>>,  \* '500-1000'
    <<<<"m","o","r","e"," ","t","h","a","n"," ","1","0","0","0">>, 1200>>,  \* 'more than 1000'
    <<<<"M","o","r","e"," ","t","h","a","n"," ","1","0","0","0">>, 1200>> }  \* 'More than 1000'

\* ------------------------------------------------------------------------
\* Tables: [columns |-> the column names, index |-> the row labels,
\* rows |-> the rows], a row being a function from the column names to cells
\* and index[k] the label of rows[k] (pandas' RangeIndex label of the row in
\* survey.csv, which row selection keeps).
\* ------------------------------------------------------------------------

Range(s) == {s[i] : i \in 1..Len(s)}

\* The elements of keep that are at most n, ascending.
RECURSIVE Positions(_, _)
Positions(keep, n) ==
  IF n = 0 THEN <<>>
  ELSE IF n \in keep THEN Append(Positions(keep, n - 1), n)
  ELSE Positions(keep, n - 1)

\* df[mask]: the rows at the positions keep, in order, with their labels.
Take(t, keep) ==
  LET p == Positions(keep, Len(t.rows))
  IN  [t EXCEPT !.rows = [k \in 1..Len(p) |-> t.rows[p[k]]],
                !.index = [k \in 1..Len(p) |-> t.index[p[k]]]]

\* The cells of the columns C that the table has.
CellsOf(t, C) ==
  {t.rows[i][c] : i \in 1..Len(t.rows), c \in C \cap t.columns}

\* Replace every cell v of the columns C that the table has by f[v].
MapCols(t, C, f) ==
  [t EXCEPT !.rows =
     [i \in 1..Len(t.rows) |->
        [c \in DOMAIN t.rows[i] |->
           IF c \in C THEN f[t.rows[i][c]] ELSE t.rows[i][c]]]]

\* Series.replace(to_replace, value) on one cell.
Replace(v, to_replace, value) == IF v \in to_replace THEN value ELSE v

\* pd.read_csv: the cells read as missing with the default na_values.
csv_na_values ==
  { <<>>,
    <<"#","N","/","A">>, <<"#","N","A">>, <<"<","N","A",">">>,
    <<"N","/","A">>, <<"N","A">>, <<"N","U","L","L">>, <<"N","a","N">>,
    <<"N","o","n","e">>, <<"n","/","a">>, <<"n","a","n">>,
    <<"n","u","l","l">> }

\* Line 12: every cell is text, or missing; the rows are labelled 0, 1, ...
read_csv(csv) ==
  MapCols([columns |-> csv.columns,
           index |-> [i \in 1..Len(csv.rows) |-> i - 1],
           rows |-> csv.rows],
          csv.columns,
          [v \in CellsOf(csv, csv.columns) |-> Replace(v, csv_na_values, NaN)])

\* Lines 15-16.
BasicTypes(t) ==
  MapCols(MapCols(t, {"Age"}, [v \in CellsOf(t, {"Age"}) |-> ToNumeric(v)]),
          {"Timestamp"}, [v \in CellsOf(t, {"Timestamp"}) |-> ToDatetime(v)])

\* CleanGender without the lower-casing of line 19.
CleanGender_no_lower(v) ==
  LET g0 == Strip(AsTypeStr(v))
      g1 == Replace(g0, female_terms, female)
      g2 == Replace(g1, male_terms, male)
  IN  Replace(g2, other_terms, other)

\* Lines 19 and 42-44 on one cell.
CleanGender(v) ==
  LET g0 == Strip(Lower(AsTypeStr(v)))
      g1 == Replace(g0, female_terms, female)
      g2 == Replace(g1, male_terms, male)
  IN  Replace(g2, other_terms, other)

\* Lines 47-51: the replacement reaches every column; no number or date equals
\* one of the tokens, so only the text columns can change.
ReplaceMissing(t) ==
  MapCols(t, t.columns \ {"Age", "Timestamp"},
          [v \in CellsOf(t, t.columns \ {"Age", "Timestamp"}) |->
             Replace(v, missing_values, NaN)])

\* ValidAge with the lower end of the range excluded.
ValidAge_exclusive(r) ==
  /\ r["Age"] # NumNaN
  /\ Val(r["Age"]) > 18
  /\ Val(r["Age"]) <= 100

\* Line 54 on one row: a comparison with NaN is false.
ValidAge(r) ==
  /\ r["Age"] # NumNaN
  /\ Val(r["Age"]) >= 18
  /\ Val(r["Age"]) <= 100

KeepValidAge(t) == Take(t, {i \in 1..Len(t.rows) : ValidAge(t.rows[i])})

\* Lines 57-58 on one cell: replace {"Yes": True, "No": False}, then astype(bool)
\* of whatever the replacement left.
TreatmentToBool(v) ==
  IF v = Yes THEN TRUE
  ELSE IF v = No THEN FALSE
  ELSE PyBool(v)

\* Line 61: the columns that are still text are trimmed.
StripStrings(t) ==
  MapCols(t, t.columns \ {"Age", "Timestamp", "treatment"},
          [v \in CellsOf(t, t.columns \ {"Age", "Timestamp", "treatment"}) |->
             Strip(v)])

\* CleanNoEmployees without the lower-casing of line 68.
CleanNoEmployees_no_lower(v) ==
  Replace(Strip(AsTypeStr(v)), corrupted_tokens, NaN)

\* Lines 64-70 on one cell.
CleanNoEmployees(v) ==
  Replace(Lower(Strip(AsTypeStr(v))), corrupted_tokens, NaN)

cat_cols ==
  { "Gender", "no_employees", "Country", "mental_health_consequence",
    "phys_health_consequence", "coworkers", "supervisor",
    "mental_health_interview", "phys_health_interview",
    "mental_vs_physical", "obs_consequence", "work_interfere",
    "benefits", "care_options", "leave", "anonymity" }

bool_cols ==
  { "remote_work", "tech_company", "seek_help",
    "self_employed", "family_history" }

\* Lines 80-82: astype("category") leaves the cells as they are and fixes the
\* categories of the column: its distinct non-missing values.
Categories(t) ==
  [c \in cat_cols \cap t.columns |->
     {t.rows[i][c] : i \in 1..Len(t.rows)} \ {NaN}]

\* Lines 89-91 on one cell: astype("bool") of a text cell.
AsTypeBool(v) == PyBool(v)

BoolColumns(t) ==
  MapCols(t, bool_cols, [v \in CellsOf(t, bool_cols) |-> AsTypeBool(v)])

\* drop_duplicates keeping the last row of each group of equal rows.
drop_duplicates_keep_last(t) ==
  Take(t, {i \in 1..Len(t.rows) :
             \A j \in (i + 1)..Len(t.rows) : t.rows[j] # t.rows[i]})

\* Line 94: a row is a duplicate when an earlier row equals it on every column
\* (missing values count as equal); the others are kept, in order.
drop_duplicates(t) ==
  Take(t, {i \in 1..Len(t.rows) :
             \A j \in 1..(i - 1) : t.rows[j] # t.rows[i]})

\* Line 106 on one cell: Series.map(size_map); a value that is no key is NaN.
MapSize(v) ==
  IF \E p \in size_map : p[1] = v
    THEN Num((CHOOSE p \in size_map : p[1] = v)[2])
    ELSE NumNaN

CompanySize(t) ==
  [t EXCEPT !.columns = @ \cup {"company_size"},
            !.rows = [i \in 1..Len(t.rows) |->
                        [c \in DOMAIN t.rows[i] \cup {"company_size"} |->
                           IF c = "company_size"
                             THEN MapSize(t.rows[i]["no_employees"])
                             ELSE t.rows[i][c]]]]

\* The columns load_and_clean_data indexes without testing for them.
indexed_columns == {"Age", "Timestamp", "Gender", "treatment", "no_employees"}

\* load_raises when every column of survey.csv were indexed without a test.
load_raises_any_column(csv) ==
  ~((indexed_columns \cup {"Country"} \cup cat_cols \cup bool_cols)
      \subseteq csv.columns)

\* load_and_clean_data raises KeyError.
load_raises(csv) == ~(indexed_columns \subseteq csv.columns)

\* Lines 11-108, for a table that has the indexed columns.
load_and_clean_data(csv) ==
  LET t1 == BasicTypes(read_csv(csv))
      t2 == MapCols(t1, {"Gender"},
                    [v \in CellsOf(t1, {"Gender"}) |-> CleanGender(v)])
      t3 == ReplaceMissing(t2)
      t4 == KeepValidAge(t3)
      t5 == MapCols(t4, {"treatment"},
                    [v \in CellsOf(t4, {"treatment"}) |-> TreatmentToBool(v)])
      t6 == StripStrings(t5)
      t7 == MapCols(t6, {"no_employees"},
                    [v \in CellsOf(t6, {"no_employees"}) |-> CleanNoEmployees(v)])
      t8 == BoolColumns(t7)
      t9 == drop_duplicates(t8)
      t10 == CompanySize(t9)
  IN  [columns |-> t10.columns, index |-> t10.index, rows |-> t10.rows,
       categories |-> Categories(t7)]

\* ------------------------------------------------------------------------
\* survey.csv: the tables the model explores
\* ------------------------------------------------------------------------

\* str.upper(), one character; used to write the letter-case variants of a text.
UpperChar(c) ==
  CASE c = "a" -> "A" [] c = "b" -> "B" [] c = "c" -> "C" [] c = "d" -> "D"
    [] c = "e" -> "E" [] c = "f" -> "F" [] c = "g" -> "G" [] c = "h" -> "H"
    [] c = "i" -> "I" [] c = "j" -> "J" [] c = "k" -> "K" [] c = "l" -> "L"
    [] c = "m" -> "M" [] c = "n" -> "N" [] c = "o" -> "O" [] c = "p" -> "P"
    [] c = "q" -> "Q" [] c = "r" -> "R" [] c = "s" -> "S" [] c = "t" -> "T"
    [] c = "u" -> "U" [] c = "v" -> "V" [] c = "w" -> "W" [] c = "x" -> "X"
    [] c = "y" -> "Y" [] c = "z" -> "Z" [] OTHER -> c

Upper(s) == [i \in 1..Len(s) |-> UpperChar(s[i])]

Capitalize(s) ==
  [i \in 1..Len(s) |-> IF i = 1 THEN UpperChar(s[i]) ELSE s[i]]

\* A text as it may be typed: in another letter case, with blanks around it.
Variants(s) ==
  { s, Upper(s), Capitalize(s),
    <<" ">> \o s, s \o <<" ">>, <<" ", "\t">> \o Upper(s) \o <<"\t", " ">> }

AllColumns ==
  { "Age", "Timestamp", "Gender", "treatment", "no_employees", "Country",
    "mental_vs_physical", "remote_work", "tech_company", "seek_help",
    "self_employed", "family_history" }

\* Raw Age cells: in range, at and beyond both ends, negative, unparseable, empty.
AgeSamples ==
  { <<"2","9">>,  \* '29'
    <<"1","8">>,  \* '18'
    <<"1","0","0">>,  \* '100'
    <<"1","7">>,  \* '17'
    <<"1","0","1">>,  \* '101'
    <<"-","1">>,  \* '-1'
    <<"a","b","c">>,  \* 'abc'
    <<>> }  \* ''

\* Raw Gender cells that are in no term list.
GenderResidue ==
  { <<"F","e","m","a","l","e">>,  \* 'Female'
    <<"x","y","z">>,  \* 'xyz'
    <<>>,  \* ''
    <<"N","/","A">>,  \* 'N/A'
    <<" ","n","/","a"," ">>,  \* ' n/a '
    <<" ">>,  \* ' '
    <<"M","a","y","b","e">>,  \* 'Maybe'
    <<"N","a">>,  \* 'Na'
    <<"D","o","n","'","t"," ","k","n","o","w">>,  \* "Don't know"
    <<"n","a","n">> }  \* 'nan'

\* Raw treatment and boolean-column cells.
TreatmentSamples ==
  { <<"Y","e","s">>,  \* 'Yes'
    <<"N","o">>,  \* 'No'
    <<>>,  \* ''
    <<"M","a","y","b","e">>,  \* 'Maybe'
    <<" ","Y","e","s">>,  \* ' Yes'
    <<"y","e","s">>,  \* 'yes'
    <<" ">>,  \* ' '
    <<"O","t","h","e","r">> }  \* 'Other'

\* The six company-size brackets.
BracketKeys ==
  { <<"1","-","5">>,  \* '1-5'
    <<"6","-","2","5">>,  \* '6-25'
    <<"2","6","-","1","0","0">>,  \* '26-100'
    <<"1","0","0","-","5","0","0">>,  \* '100-500'
    <<"5","0","0","-","1","0","0","0">>,  \* '500-1000'
    <<"m","o","r","e"," ","t","h","a","n"," ","1","0","0","0">> }  \* 'more than 1000'

\* Raw no_employees cells that are no bracket.
EmployeesResidue ==
  { <<"J","u","n","-","2","5">>,  \* 'Jun-25'
    <<"0","1","-","M","a","y">>,  \* '01-May'
    <<" ","j","u","n","-","2","5"," ">>,  \* ' jun-25 '
    <<>>,  \* ''
    <<"M","a","y","b","e">>,  \* 'Maybe'
    <<"N","/","A">>,  \* 'N/A'
    <<"S","o","m","e"," ","o","f"," ","t","h","e","m">>,  \* 'Some of them'
    <<"1","-","2","5">>,  \* '1-25'
    <<"n","a","n">> }  \* 'nan'

\* Raw Country cells.
CountrySamples ==
  { <<"U","S">>,  \* 'US'
    <<"U","K">>,  \* 'UK'
    <<>> }  \* ''

\* Raw mental_vs_physical cells.
BelieveSamples ==
  { <<"Y","e","s">>,  \* 'Yes'
    <<"N","o">>,  \* 'No'
    <<"D","o","n","'","t"," ","k","n","o","w">> }  \* "Don't know"

\* Raw Timestamp cells.
TimestampSamples ==
  { <<"2","0","1","4">>,  \* '2014'
    <<"2","0","1","5">>,  \* '2015'
    <<"x">> }  \* 'x'

\* One row of survey.csv.
Row(age, gender, treatment, employees, country, believe, rw, tc, sh, se, fh) ==
  [c \in AllColumns |->
     CASE c = "Age" -> age
       [] c = "Timestamp" -> <<"2","0","1","4">>
       [] c = "Gender" -> gender
       [] c = "treatment" -> treatment
       [] c = "no_employees" -> employees
       [] c = "Country" -> country
       [] c = "mental_vs_physical" -> believe
       [] c = "remote_work" -> rw
       [] c = "tech_company" -> tc
       [] c = "seek_help" -> sh
       [] c = "self_employed" -> se
       [] c = "family_history" -> fh]

BaseRow ==
  Row(<<"2","9">>, <<"F">>, Yes, <<"6","-","2","5">>, <<"U","S">>, Yes,
      Yes, Yes, No, No, No)

With(r, col, v) == [r EXCEPT ![col] = v]

AllTerms == female_terms \cup male_terms \cup other_terms

GenderSamples == UNION {Variants(t) : t \in AllTerms} \cup GenderResidue

EmployeesSamples == UNION {Variants(b) : b \in BracketKeys} \cup EmployeesResidue

\* Rows that differ from BaseRow in one column, or in the boolean columns.
VariedRows ==
  {With(BaseRow, "Age", v) : v \in AgeSamples}
    \cup {With(BaseRow, "Gender", v) : v \in GenderSamples}
    \cup {With(BaseRow, "treatment", v) : v \in TreatmentSamples}
    \cup {With(BaseRow, "no_employees", v) : v \in EmployeesSamples}
    \cup {With(BaseRow, "Country", v) : v \in CountrySamples}
    \cup {With(BaseRow, "Timestamp", v) : v \in TimestampSamples}
    \cup {Row(<<"2","9">>, <<"F">>, Yes, <<"6","-","2","5">>, <<"U","S">>, Yes, a, b, c, d, e) :
             <<a, b, c, d, e>> \in
               { <<Yes, No, <<>>, <<"M","a","y","b","e">>, <<" ">>>>,
                  <<No, <<>>, <<"M","a","y","b","e">>, <<" ">>, Yes>>,
                  <<<<>>, <<"M","a","y","b","e">>, <<" ">>, Yes, No>>,
                  <<<<"M","a","y","b","e">>, <<" ">>, Yes, No, <<>>>>,
                  <<<<" ">>, Yes, No, <<>>, <<"M","a","y","b","e">>>>,
                  <<<<"y","e","s">>, <<"N","O">>, <<"Y","e","s"," ">>, <<"O","t","h","e","r">>, <<"N","o"," ">>>> }}

\* Rows combined into tables of several rows: equal rows, rows that become
\* equal once cleaned, rows the age rule drops, rows with residual values.
CoreRows ==
  { BaseRow,
     With(BaseRow, "Gender", <<" ","f"," ">>),
     With(BaseRow, "Gender", <<"x","y","z">>),
     With(BaseRow, "Age", <<"1","7">>),
     With(BaseRow, "Age", <<"a","b","c">>),
     With(BaseRow, "Age", <<"1","0","0">>),
     With(BaseRow, "treatment", <<"M","a","y","b","e">>),
     With(BaseRow, "no_employees", <<"6","-","2","5"," ">>),
     With(BaseRow, "no_employees", <<"J","u","n","-","2","5">>),
     With(BaseRow, "Timestamp", <<"x">>) }

\* Rows of the tables the dashboard is run on.
DashRows ==
  { Row(<<"2","9">>, <<"F">>, Yes, <<"6","-","2","5">>, <<"U","S">>, Yes, Yes, Yes, No, No, No),
     Row(<<"4","0">>, <<"M">>, No, <<"1","-","5">>, <<"U","K">>, No, <<" ">>, Yes, No, No, Yes),
     Row(<<"4","0">>, <<" ","N","/","A"," ">>, Yes, <<"6","-","2","5">>, <<"U","S">>, Yes, Yes, <<" ">>, No, No, No),
     Row(<<"2","9">>, <<"M">>, No, <<"6","-","2","5">>, <<>>, <<"D","o","n","'","t"," ","k","n","o","w">>, No, No, No, No, No),
     Row(<<"1","7">>, <<"F">>, Yes, <<"6","-","2","5">>, <<"U","K">>, Yes, Yes, Yes, No, No, No),
     Row(<<"4","0">>, <<"w","o","m","a","n">>, Yes, <<"2","6","-","1","0","0">>, <<"U","K">>, No, Yes, Yes, No, No, Yes) }

\* The tables of at most MaxRows rows drawn from a set of rows.
Tables(rowset) ==
  UNION { [1..n -> rowset] : n \in 0..MaxRows }

Csv(rows) == [columns |-> AllColumns, rows |-> rows]

\* A one-row table that lacks the column col.
CsvWithout(col) ==
  [columns |-> AllColumns \ {col},
   rows |-> << [c \in AllColumns \ {col} |-> BaseRow[c]] >>]

\* ------------------------------------------------------------------------
\* The dashboard script
\* ------------------------------------------------------------------------

VARIABLES
  pc,                 \* the position of the script
  csv,                \* the content of survey.csv
  df,                 \* the table load_and_clean_data returned
  selected_gender,    \* the sidebar widgets' values
  age_range,
  remote_choice,
  tech_choice,
  selected_countries,
  filtered_df,        \* the filtered table
  warning,            \* st.warning has been issued
  kpi,                \* the KPI cards
  gender_counts,      \* tab 1: the rows per gender
  perc,               \* tab 4: the per-country share of "Yes"
  top                 \* tab 4: the countries charted

vars ==
  << pc, csv, df, selected_gender, age_range, remote_choice, tech_choice,
     selected_countries, filtered_df, warning, kpi, gender_counts, perc, top >>

NoTable == [columns |-> {}, index |-> <<>>, rows |-> <<>>, categories |-> <<>>]

remote_options == {"All", "Remote", "On-site"}

tech_options == {"All", "Tech only", "Non-tech only"}

\* The number of countries the ranking of tab 4 keeps: head(15).
top_n == 15

\* Series.dropna().unique() of a column.
Unique(t, col) == {t.rows[i][col] : i \in 1..Len(t.rows)} \ {NaN}

Ages(t) == {Val(t.rows[i]["Age"]) : i \in 1..Len(t.rows)}

\* ApplyFilter without the test of line 178: an empty selection of countries
\* restricts like any other.
ApplyFilter_always_countries(t, sg, ar, rc, tc, sc) ==
  LET f1 == Take(t, {i \in 1..Len(t.rows) :
                       /\ t.rows[i]["Gender"] \in sg
                       /\ Val(t.rows[i]["Age"]) >= ar[1]
                       /\ Val(t.rows[i]["Age"]) <= ar[2]})
      f2 == Take(f1, {i \in 1..Len(f1.rows) : f1.rows[i]["Country"] \in sc})
      f3 == IF rc # "All"
              THEN Take(f2, {i \in 1..Len(f2.rows) :
                               f2.rows[i]["remote_work"] = (rc = "Remote")})
              ELSE f2
  IN  IF tc # "All"
        THEN Take(f3, {i \in 1..Len(f3.rows) :
                         f3.rows[i]["tech_company"] = (tc = "Tech only")})
        ELSE f3

\* Lines 171-187, for a table that has the columns the selection needs.
ApplyFilter(t, sg, ar, rc, tc, sc) ==
  LET f1 == Take(t, {i \in 1..Len(t.rows) :
                       /\ t.rows[i]["Gender"] \in sg
                       /\ Val(t.rows[i]["Age"]) >= ar[1]
                       /\ Val(t.rows[i]["Age"]) <= ar[2]})
      f2 == IF sc # {}
              THEN Take(f1, {i \in 1..Len(f1.rows) : f1.rows[i]["Country"] \in sc})
              ELSE f1
      f3 == IF rc # "All"
              THEN Take(f2, {i \in 1..Len(f2.rows) :
                               f2.rows[i]["remote_work"] = (rc = "Remote")})
              ELSE f2
  IN  IF tc # "All"
        THEN Take(f3, {i \in 1..Len(f3.rows) :
                         f3.rows[i]["tech_company"] = (tc = "Tech only")})
        ELSE f3

\* Lines 181-187 index a column only when the choice is not "All".
filter_raises(t, rc, tc) ==
  \/ rc # "All" /\ "remote_work" \notin t.columns
  \/ tc # "All" /\ "tech_company" \notin t.columns

\* The rows of a table whose cell in column col is TRUE.
CountTrue(t, col) == Cardinality({i \in 1..Len(t.rows) : t.rows[i][col]})

\* Lines 203-220: a rate is mean() * 100, kept as the pair <<100 * trues, rows>>.
KpiOf(t) ==
  [total |-> Len(t.rows),
   treatment_rate |-> << 100 * CountTrue(t, "treatment"), Len(t.rows) >>,
   fam_rate |-> IF "family_history" \in t.columns
                  THEN << 100 * CountTrue(t, "family_history"), Len(t.rows) >>
                  ELSE <<>>]

\* Line 239: value_counts() of the categorical Gender column counts every
\* category, the ones without a row included.
GenderCounts(t) ==
  [g \in t.categories["Gender"] |->
     Cardinality({i \in 1..Len(t.rows) : t.rows[i]["Gender"] = g})]

\* Lines 629-635: the rows per (Country, mental_vs_physical) group.  Both keys
\* are categorical: with observed=False (the default of pandas 2) every pair of
\* categories is a group, with observed=True (the default of pandas 3) only the
\* pairs that occur are.
Counts(t, observed) ==
  LET kept == {i \in 1..Len(t.rows) :
                 /\ t.rows[i]["Country"] # NaN
                 /\ t.rows[i]["mental_vs_physical"] # NaN}
      n(c, m) == Cardinality({i \in kept :
                                /\ t.rows[i]["Country"] = c
                                /\ t.rows[i]["mental_vs_physical"] = m})
      groups == IF observed
                  THEN {<<t.rows[i]["Country"], t.rows[i]["mental_vs_physical"]>> :
                          i \in kept}
                  ELSE t.categories["Country"] \X t.categories["mental_vs_physical"]
  IN  [g \in groups |-> n(g[1], g[2])]

RECURSIVE Sum(_, _)
Sum(f, S) ==
  IF S = {} THEN 0
  ELSE LET x == CHOOSE x \in S : TRUE IN f[x] + Sum(f, S \ {x})

\* Line 649: 100 * Yes / N in hundredths of a percent, truncated; 0 / 0 is NaN.
PctYes(yes, N) ==
  IF N = 0 THEN NumNaN ELSE Num((10000 * yes) \div N)

\* Lines 637-649: total, yes, their left merge and Pct_Yes.
Perc(counts) ==
  LET groups == DOMAIN counts
      countries == {g[1] : g \in groups}
      N(c) == Sum(counts, {g \in groups : g[1] = c})
      Y(c) == Sum(counts, {g \in groups : g[1] = c /\ g[2] = Yes})
  IN  [c \in countries |->
         [N |-> N(c), Yes |-> Y(c), Pct_Yes |-> PctYes(Y(c), N(c))]]

\* sort_values("Pct_Yes", ascending=False): NaN sorts last.
Before(a, b) ==
  /\ a # NumNaN
  /\ b = NumNaN \/ Val(a) > Val(b)

\* Line 650: the countries head(top_n) keeps, those with fewer than top_n
\* countries sorted before them.
Top(p) ==
  {c \in DOMAIN p :
     Cardinality({d \in DOMAIN p : Before(p[d].Pct_Yes, p[c].Pct_Yes)}) < top_n}

Init ==
  /\ pc = "load"
  /\ csv \in {Csv(rows) : rows \in Tables(DashRows)}
               \cup {CsvWithout(col) : col \in AllColumns}
  /\ df = NoTable
  /\ selected_gender = {}
  /\ age_range = <<0, 0>>
  /\ remote_choice = "All"
  /\ tech_choice = "All"
  /\ selected_countries = {}
  /\ filtered_df = NoTable
  /\ warning = FALSE
  /\ kpi = <<>>
  /\ gender_counts = <<>>
  /\ perc = <<>>
  /\ top = {}

\* Line 111: df = load_and_clean_data().
LoadAndCleanData ==
  /\ pc = "load"
  /\ ~load_raises(csv)
  /\ df' = load_and_clean_data(csv)
  /\ pc' = "sidebar"
  /\ UNCHANGED << csv, selected_gender, age_range, remote_choice, tech_choice,
                  selected_countries, filtered_df, warning, kpi, gender_counts,
                  perc, top >>

\* Line 111 when an indexed column is absent: KeyError ends the script.
LoadKeyError ==
  /\ pc = "load"
  /\ load_raises(csv)
  /\ pc' = "error"
  /\ UNCHANGED << csv, df, selected_gender, age_range, remote_choice,
                  tech_choice, selected_countries, filtered_df, warning, kpi,
                  gender_counts, perc, top >>

\* Lines 141 and 159: int() of the minimum of no ages is a ValueError, and
\* df["Country"] of a table without the column a KeyError.
sidebar_raises(t) == t.rows = <<>> \/ "Country" \notin t.columns

\* Lines 130-165: the widgets return the user's selection.  The slider's ends
\* are drawn from the ages that occur, all of them between min_age (line 141)
\* and max_age (line 142).
SidebarFilters ==
  /\ pc = "sidebar"
  /\ ~sidebar_raises(df)
  /\ selected_gender' \in SUBSET Unique(df, "Gender")
  /\ \E lo \in Ages(df), hi \in Ages(df) :
       /\ lo <= hi
       /\ age_range' = <<lo, hi>>
  /\ remote_choice' \in remote_options
  /\ tech_choice' \in tech_options
  /\ selected_countries' \in SUBSET Unique(df, "Country")
  /\ pc' = "filter"
  /\ UNCHANGED << csv, df, filtered_df, warning, kpi, gender_counts, perc, top >>

SidebarError ==
  /\ pc = "sidebar"
  /\ sidebar_raises(df)
  /\ pc' = "error"
  /\ UNCHANGED << csv, df, selected_gender, age_range, remote_choice,
                  tech_choice, selected_countries, filtered_df, warning, kpi,
                  gender_counts, perc, top >>

\* Lines 171-187.
ApplyFilters ==
  /\ pc = "filter"
  /\ ~filter_raises(df, remote_choice, tech_choice)
  /\ filtered_df' = ApplyFilter(df, selected_gender, age_range, remote_choice,
                                tech_choice, selected_countries)
  /\ pc' = "check"
  /\ UNCHANGED << csv, df, selected_gender, age_range, remote_choice,
                  tech_choice, selected_countries, warning, kpi, gender_counts,
                  perc, top >>

\* Lines 183 and 187 on a table without the column: KeyError.
FilterKeyError ==
  /\ pc = "filter"
  /\ filter_raises(df, remote_choice, tech_choice)
  /\ pc' = "error"
  /\ UNCHANGED << csv, df, selected_gender, age_range, remote_choice,
                  tech_choice, selected_countries, filtered_df, warning, kpi,
                  gender_counts, perc, top >>

\* Lines 190-195: the warning, then st.stop().
NoData ==
  /\ pc = "check"
  /\ filtered_df.rows = <<>>
  /\ warning' = TRUE
  /\ pc' = "stopped"
  /\ UNCHANGED << csv, df, selected_gender, age_range, remote_choice,
                  tech_choice, selected_countries, filtered_df, kpi,
                  gender_counts, perc, top >>

\* KpiCards when st.stop() of line 195 is missing: it runs on an empty table too.
KpiCards_without_stop ==
  /\ pc = "check"
  /\ kpi' = KpiOf(filtered_df)
  /\ pc' = "tabs"
  /\ UNCHANGED << csv, df, selected_gender, age_range, remote_choice,
                  tech_choice, selected_countries, filtered_df, warning,
                  gender_counts, perc, top >>

\* Lines 197-220.
KpiCards ==
  /\ pc = "check"
  /\ filtered_df.rows # <<>>
  /\ kpi' = KpiOf(filtered_df)
  /\ pc' = "tabs"
  /\ UNCHANGED << csv, df, selected_gender, age_range, remote_choice,
                  tech_choice, selected_countries, filtered_df, warning,
                  gender_counts, perc, top >>

\* Lines 226-598: tabs 1 to 3; of their charts the model keeps gender_counts.
Charts ==
  /\ pc = "tabs"
  /\ gender_counts' = GenderCounts(filtered_df)
  /\ pc' = "tab4"
  /\ UNCHANGED << csv, df, selected_gender, age_range, remote_choice,
                  tech_choice, selected_countries, filtered_df, warning, kpi,
                  perc, top >>

\* Lines 600-666: tab 4.  The tables modelled have no mental_health_consequence
\* column, so the first chart is skipped (line 604).
CountryComparison ==
  /\ pc = "tab4"
  /\ \E observed \in BOOLEAN :
       LET counts == IF "mental_vs_physical" \in filtered_df.columns
                       THEN Counts(filtered_df, observed)
                       ELSE <<>>
       IN  IF DOMAIN counts # {}
             THEN /\ perc' = Perc(counts)
                  /\ top' = Top(Perc(counts))
             ELSE UNCHANGED << perc, top >>
  /\ pc' = "done"
  /\ UNCHANGED << csv, df, selected_gender, age_range, remote_choice,
                  tech_choice, selected_countries, filtered_df, warning, kpi,
                  gender_counts >>

Next ==
  \/ LoadAndCleanData
  \/ LoadKeyError
  \/ SidebarFilters
  \/ SidebarError
  \/ ApplyFilters
  \/ FilterKeyError
  \/ NoData
  \/ KpiCards
  \/ Charts
  \/ CountryComparison

Spec == Init /\ [][Next]_vars

\* The cleaning pipeline on its own, run on tables that vary every column.
InitClean ==
  /\ pc = "load"
  /\ csv \in {Csv(rows) : rows \in Tables(CoreRows)}
               \cup {Csv(<<r>>) : r \in VariedRows}
  /\ df = NoTable
  /\ selected_gender = {}
  /\ age_range = <<0, 0>>
  /\ remote_choice = "All"
  /\ tech_choice = "All"
  /\ selected_countries = {}
  /\ filtered_df = NoTable
  /\ warning = FALSE
  /\ kpi = <<>>
  /\ gender_counts = <<>>
  /\ perc = <<>>
  /\ top = {}

NextClean == LoadAndCleanData

SpecClean == InitClean /\ [][NextClean]_vars

\* ------------------------------------------------------------------------
\* Properties of load_and_clean_data
\* ------------------------------------------------------------------------

\* load_and_clean_data has returned.
Cleaned == df.columns # {}

\* The row of survey.csv behind row k of df.
RawRow(k) == csv.rows[df.index[k] + 1]

\* The labels of the rows of df.
Kept == Range(df.index)

\* What load_and_clean_data makes of the row r alone: no row, or one.
CleanedAlone(r) == load_and_clean_data(Csv(<<r>>)).rows

\* The numbers the Age texts of the model denote; a text that is not listed
\* ("abc", the empty cell) denotes none.
AgeMeaning ==
  { <<<<"2","9">>, 29>>,
    <<<<"4","0">>, 40>>,
    <<<<"1","8">>, 18>>,
    <<<<"1","0","0">>, 100>>,
    <<<<"1","7">>, 17>>,
    <<<<"1","0","1">>, 101>>,
    <<<<"-","1">>, -1>> }

AgeInRange(text) ==
  \E p \in AgeMeaning : p[1] = text /\ 18 <= p[2] /\ p[2] <= 100

\* C1: a row of survey.csv is in the canonical table, or was removed as the
\* duplicate of an earlier row that is, if and only if its Age denotes a number
\* from 18 to 100; every canonical row carries that number as its Age.
C1_AgeRule ==
  Cleaned =>
    /\ \A k \in 1..Len(df.rows) :
         /\ df.rows[k]["Age"] # NumNaN
         /\ Val(df.rows[k]["Age"]) >= 18
         /\ Val(df.rows[k]["Age"]) <= 100
         /\ <<RawRow(k)["Age"], Val(df.rows[k]["Age"])>> \in AgeMeaning
    /\ \A i \in 1..Len(csv.rows) :
         AgeInRange(csv.rows[i]["Age"]) <=>
           \/ (i - 1) \in Kept
           \/ \E k \in 1..Len(df.rows) :
                /\ df.index[k] < i - 1
                /\ <<df.rows[k]>> = CleanedAlone(csv.rows[i])

\* A table of three rows of which the first is under 18, the second exactly
\* 100 and the third unparseable: only the second is kept.
C1_Witness ==
  /\ Cleaned
  /\ Len(csv.rows) = 3
  /\ csv.rows[1]["Age"] = <<"1","7">>
  /\ csv.rows[2]["Age"] = <<"1","0","0">>
  /\ csv.rows[3]["Age"] = <<"a","b","c">>
  /\ df.index = <<1>>
  /\ df.rows[1]["Age"] = Num(100)

\* C2: the Gender of every canonical row is female, male, other or missing.
C2_GenderDomain ==
  Cleaned =>
    \A k \in 1..Len(df.rows) :
      df.rows[k]["Gender"] \in {female, male, other, NaN}

\* C3: a raw Gender that is a token of a term list in any letter case, with or
\* without blanks around it, is female, male or other in the canonical table.
C3_GenderTerms ==
  Cleaned =>
    \A k \in 1..Len(df.rows) :
      /\ (\E t \in female_terms : RawRow(k)["Gender"] \in Variants(t))
           => df.rows[k]["Gender"] = female
      /\ (\E t \in male_terms : RawRow(k)["Gender"] \in Variants(t))
           => df.rows[k]["Gender"] = male
      /\ (\E t \in other_terms : RawRow(k)["Gender"] \in Variants(t))
           => df.rows[k]["Gender"] = other

\* An upper-case token of the other list with blanks and tabs around it.
C3_Witness ==
  /\ Cleaned
  /\ \E k \in 1..Len(df.rows) :
       /\ RawRow(k)["Gender"] = <<" ", "\t">> \o Upper(<<"n","o","n","-","b","i","n","a","r","y">>) \o <<"\t", " ">>
       /\ df.rows[k]["Gender"] = other

\* C4: the canonical treatment is true exactly when the raw cell is "Yes".
C4_TreatmentStrict ==
  Cleaned =>
    \A k \in 1..Len(df.rows) :
      df.rows[k]["treatment"] = (RawRow(k)["treatment"] = Yes)

\* C5: each boolean column is true exactly when the raw cell is "Yes".
C5_BoolStrict ==
  Cleaned =>
    \A k \in 1..Len(df.rows) :
      \A c \in bool_cols :
        df.rows[k][c] = (RawRow(k)[c] = Yes)

\* The documented midpoint of each bracket.
Midpoints ==
  { <<<<"1","-","5">>, 3>>,
    <<<<"6","-","2","5">>, 15>>,
    <<<<"2","6","-","1","0","0">>, 63>>,
    <<<<"1","0","0","-","5","0","0">>, 300>>,
    <<<<"5","0","0","-","1","0","0","0">>, 750>>,
    <<<<"m","o","r","e"," ","t","h","a","n"," ","1","0","0","0">>, 1200>> }

\* C6: company_size is the documented midpoint of the canonical no_employees
\* when that is a bracket, whatever the letter case and the blanks of the raw
\* cell, and missing when no_employees is missing or no bracket.
C6_CompanySize ==
  Cleaned =>
    \A k \in 1..Len(df.rows) :
      /\ \A p \in Midpoints :
           /\ df.rows[k]["no_employees"] = p[1]
                => df.rows[k]["company_size"] = Num(p[2])
           /\ RawRow(k)["no_employees"] \in Variants(p[1])
                => /\ df.rows[k]["no_employees"] = p[1]
                   /\ df.rows[k]["company_size"] = Num(p[2])
      /\ df.rows[k]["no_employees"] \notin BracketKeys
           => df.rows[k]["company_size"] = NumNaN

\* An upper-case bracket with blanks around it, and a corrupted token.
C6_Witness ==
  /\ Cleaned
  /\ \E k \in 1..Len(df.rows) :
       /\ RawRow(k)["no_employees"]
            = <<" ", "\t">> \o Upper(<<"m","o","r","e"," ","t","h","a","n"," ","1","0","0","0">>) \o <<"\t", " ">>
       /\ df.rows[k]["company_size"] = Num(1200)

\* C7: the canonical no_employees is one of the six brackets, or missing.
C7_BracketDomain ==
  Cleaned =>
    \A k \in 1..Len(df.rows) :
      df.rows[k]["no_employees"] \in BracketKeys \cup {NaN}

\* C8: no two canonical rows are equal; the canonical rows are, in the order
\* of survey.csv, the cleaned rows of valid age that equal no earlier cleaned
\* row of survey.csv.
C8_NoDuplicates ==
  Cleaned =>
    /\ \A k1, k2 \in 1..Len(df.rows) :
         k1 < k2 => /\ df.rows[k1] # df.rows[k2]
                    /\ df.index[k1] < df.index[k2]
    /\ \A k \in 1..Len(df.rows) : <<df.rows[k]>> = CleanedAlone(RawRow(k))
    /\ \A i \in 1..Len(csv.rows) :
         (i - 1) \in Kept <=>
           /\ CleanedAlone(csv.rows[i]) # <<>>
           /\ \A j \in 1..(i - 1) :
                CleanedAlone(csv.rows[j]) # CleanedAlone(csv.rows[i])

\* Three rows, the third written differently from the first and equal to it
\* once cleaned: the first two are kept.
C8_Witness ==
  /\ Cleaned
  /\ Len(csv.rows) = 3
  /\ csv.rows[1] # csv.rows[3]
  /\ csv.rows[1] # csv.rows[2]
  /\ CleanedAlone(csv.rows[1]) = CleanedAlone(csv.rows[3])
  /\ df.index = <<0, 1>>

\* ------------------------------------------------------------------------
\* Properties of the dashboard script
\* ------------------------------------------------------------------------

\* The filters have been applied.
Filtered == pc \in {"check", "stopped", "tabs", "tab4", "done"}

\* The selection of the sidebar, as a condition on one canonical row.
Selected(r) ==
  /\ r["Gender"] \in selected_gender
  /\ age_range[1] <= Val(r["Age"])
  /\ Val(r["Age"]) <= age_range[2]
  /\ selected_countries = {} \/ r["Country"] \in selected_countries
  /\ remote_choice = "Remote" => r["remote_work"] = TRUE
  /\ remote_choice = "On-site" => r["remote_work"] = FALSE
  /\ tech_choice = "Tech only" => r["tech_company"] = TRUE
  /\ tech_choice = "Non-tech only" => r["tech_company"] = FALSE

\* C9: the filtered table holds exactly the canonical rows the selection
\* admits, in the canonical order; no gender selected gives no row, and no row
\* with a missing gender is ever returned.
C9_FilterSubset ==
  Filtered =>
    /\ Range(filtered_df.index)
         = {df.index[k] : k \in {j \in 1..Len(df.rows) : Selected(df.rows[j])}}
    /\ \A j1, j2 \in 1..Len(filtered_df.rows) :
         j1 < j2 => filtered_df.index[j1] < filtered_df.index[j2]
    /\ \A j \in 1..Len(filtered_df.rows) :
         \E k \in 1..Len(df.rows) :
           /\ df.index[k] = filtered_df.index[j]
           /\ df.rows[k] = filtered_df.rows[j]
    /\ selected_gender = {} => filtered_df.rows = <<>>
    /\ \A j \in 1..Len(filtered_df.rows) : filtered_df.rows[j]["Gender"] # NaN

\* No country selected and "On-site" chosen: of three canonical rows, one of
\* them with a missing gender, exactly the on-site row with a gender is returned.
C9_Witness ==
  /\ Filtered
  /\ selected_countries = {}
  /\ remote_choice = "On-site"
  /\ Len(df.rows) = 3
  /\ \E k \in 1..Len(df.rows) : df.rows[k]["Gender"] = NaN
  /\ Cardinality(Unique(df, "Country")) = 2
  /\ Len(filtered_df.rows) = 1
  /\ filtered_df.rows[1]["remote_work"] = FALSE

\* C10: in the per-country percentage of tab 4 a country whose total is zero
\* has Pct_Yes = 0, and no Pct_Yes is NaN.
C10_ZeroTotal ==
  pc = "done" =>
    \A c \in DOMAIN perc :
      /\ perc[c].Pct_Yes # NumNaN
      /\ perc[c].N = 0 => perc[c].Pct_Yes = Num(0)

\* The columns the input file is documented to have.
required_columns ==
  {"Age", "Timestamp", "Gender", "treatment", "no_employees", "Country"}
    \cup cat_cols \cup bool_cols

\* C11 as stated: load_and_clean_data returns a table only when survey.csv has
\* every documented column, and fails when one of them is absent.
C11_AllRequired ==
  pc # "load" => (Cleaned <=> required_columns \subseteq csv.columns)

\* C11 as amended: load_and_clean_data fails, and leaves no table, exactly when
\* Age, Timestamp, Gender, treatment or no_employees is absent; the absence of
\* Country or of another categorical or boolean column does not make it fail.
C11_IndexedColumns ==
  pc # "load" =>
    /\ Cleaned <=>
         {"Age", "Timestamp", "Gender", "treatment", "no_employees"}
           \subseteq csv.columns
    /\ ~Cleaned => /\ pc = "error"
                   /\ df.rows = <<>>
                   /\ df.index = <<>>

\* survey.csv has every modelled column but Timestamp: the load has failed.
C11_Witness ==
  /\ pc = "error"
  /\ csv.columns = AllColumns \ {"Timestamp"}
  /\ Len(csv.rows) = 1
  /\ ~Cleaned
  /\ df.rows = <<>>

\* What holds in every state of a run as to the no-data stop.
NoDataInvariant ==
  /\ pc \in {"tabs", "tab4", "done"} =>
       /\ filtered_df.rows # <<>>
       /\ ~warning
  /\ pc = "stopped" =>
       /\ warning
       /\ filtered_df.rows = <<>>
       /\ DOMAIN kpi = {}
       /\ DOMAIN gender_counts = {}
       /\ DOMAIN perc = {}
       /\ top = {}
  /\ warning => pc = "stopped"

\* What holds of every step taken once the filters have been applied.
NoDataStep ==
  /\ pc = "check" /\ filtered_df.rows = <<>> =>
       /\ pc' = "stopped"
       /\ warning'
       /\ UNCHANGED << kpi, gender_counts, perc, top >>
  /\ pc = "check" /\ filtered_df.rows # <<>> =>
       /\ pc' = "tabs"
       /\ ~warning'
  /\ pc = "stopped" => pc' = "stopped"
  /\ pc \in {"check", "stopped", "tabs", "tab4", "done"} => pc' # "error"

\* C12: once the filters have been applied, a run whose filtered table is empty
\* issues the warning and stops with no KPI, aggregate or chart computed; such a
\* step is taken only in runs whose filtered table has a row, and the empty
\* table never ends the run in an error.
C12_NoDataStops == [] NoDataInvariant /\ [][NoDataStep]_vars

\* The canonical table has rows, the selection admits none: warned and stopped.
C12_Witness ==
  /\ pc = "stopped"
  /\ warning
  /\ df.rows # <<>>
  /\ selected_gender # {}
  /\ filtered_df.rows = <<>>

====
